---- MODULE Spec2Model ----
(***************************************************************************)
(* Money-ledger Telegram bot, both variants of the repository:             *)
(*   variant "two"   : src/unnamed/part_000 (Sheyx, Polvon; modes; cron)   *)
(*   variant "three" : src/src/app.ts       (Sheyx, Polvon, Jyan)          *)
(* Strings of the program (message texts, notes) are sequences of          *)
(* one-character strings.  A JavaScript number is held in hundredths       *)
(* (Scale), so that the two-decimal shares of variant "three" are exact.   *)
(* The ledger is a sequence in insertion order, which is the order of the  *)
(* entries' creation times; an entry's time is its position.               *)
(***************************************************************************)
EXTENDS Integers, Sequences, FiniteSets, TLC

\* ---------------------------------------------------------------- bounds
\* A commit is accepted by the model only while the ledger holds fewer than
\* MaxLedger entries.
MaxLedger == 1

\* The totals over which the split arithmetic is checked: 0..MaxTotal.
MaxTotal == 20

Scale == 100

\* Under SpecStale an identity is sent at most MaxRounds clear prompts and
\* gives at most MaxRounds + 1 answers.
MaxRounds == 2

\* Under SpecRace at most MaxPending text handlers are between their session
\* read and their commit, and an identity makes at most MaxSelections
\* selections.
MaxPending == 2

MaxSelections == 1

\* The arguments parseKrwAmount is called with under SpecParse: every string
\* of at most MaxRaw characters of ParseAlphabet.
MaxRaw == 3

\* ------------------------------------------------------------ identities
U1 == "615764917"
U2 == "499127006"
JYAN_ID == "6520848060"
Stranger == "stranger"
AdminOnly == "admin"
Ids == {U1, U2, JYAN_ID, Stranger}

Variants == {"two", "three"}
NULL == "null"
Umumiy == "Umumiy"

\* ------------------------------------------------- strings of the program
Digits == <<"0", "1", "2", "3", "4", "5", "6", "7", "8", "9">>

IsDigit(c) == \E i \in 1..10 : Digits[i] = c

DigitVal(c) == (CHOOSE i \in 1..10 : Digits[i] = c) - 1

\* white space: the space and the tab stand for the class \s
IsSpace(c) == c \in {" ", "\t"}

\* A separator class without the underscore: [.,\s]
IsSeparatorNoUnderscore(c) == c \in {".", ","} \/ IsSpace(c)

\* the character class [.,\s_]
IsSeparator(c) == c \in {".", ",", "_"} \/ IsSpace(c)

AllDigits(s) == \A i \in 1..Len(s) : IsDigit(s[i])

RECURSIVE ParseInt(_)
\* parseInt(s, 10) of a non-empty string of digits
ParseInt(s) ==
  IF s = << >> THEN 0
  ELSE 10 * ParseInt(SubSeq(s, 1, Len(s) - 1)) + DigitVal(s[Len(s)])

RECURSIVE Trim(_)
Trim(s) ==
  IF s = << >> THEN s
  ELSE IF IsSpace(s[1]) THEN Trim(Tail(s))
  ELSE IF IsSpace(s[Len(s)]) THEN Trim(SubSeq(s, 1, Len(s) - 1))
  ELSE s

RECURSIVE Split(_)
\* s.split(' '): the parts between single spaces, empty parts kept
Split(s) ==
  IF \A i \in 1..Len(s) : s[i] # " " THEN << s >>
  ELSE LET k == CHOOSE i \in 1..Len(s) :
                  s[i] = " " /\ \A j \in 1..(i - 1) : s[j] # " "
       IN << SubSeq(s, 1, k - 1) >> \o Split(SubSeq(s, k + 1, Len(s)))

RECURSIVE Join(_)
\* parts.join(' ')
Join(parts) ==
  IF parts = << >> THEN << >>
  ELSE IF Len(parts) = 1 THEN parts[1]
  ELSE parts[1] \o << " " >> \o Join(Tail(parts))

\* parts.slice(1).join(' ') || ''
NoteOf(parts) == Join(Tail(parts))

Parsed(v) == [ok |-> TRUE, value |-> v]
Failed == [ok |-> FALSE, value |-> 0]

\* A parse as lenient as parseInt alone: the digits before the first other
\* character, null when there is none.
parseKrwAmountPrefix(raw) ==
  LET cleaned == SelectSeq(raw, LAMBDA c : ~IsSeparator(c))
      k == CHOOSE n \in 0..Len(cleaned) :
             /\ \A i \in 1..n : IsDigit(cleaned[i])
             /\ n < Len(cleaned) => ~IsDigit(cleaned[n + 1])
  IN IF k = 0 THEN Failed ELSE Parsed(ParseInt(SubSeq(cleaned, 1, k)))

\* parseKrwAmount(raw): the integer, or null (Failed)
parseKrwAmount(raw) ==
  IF raw = << >> THEN Failed
  ELSE LET cleaned == SelectSeq(raw, LAMBDA c : ~IsSeparator(c))
       IN IF cleaned = << >> \/ ~AllDigits(cleaned) THEN Failed
          ELSE Parsed(ParseInt(cleaned))

\* The longest prefix of s made of digits only.
RECURSIVE DigitPrefix(_)
DigitPrefix(s) ==
  IF s = << >> \/ ~IsDigit(s[1]) THEN << >>
  ELSE << s[1] >> \o DigitPrefix(Tail(s))

\* parseFloat(s), in hundredths: leading white space, an optional sign, digits,
\* an optional fraction; NaN (Failed) when no digit is found.  Fraction digits
\* beyond the second are dropped; the messages of the model carry at most two.
\* The alphabet of the model has no exponent letter and no "Infinity".
parseFloat(s) ==
  LET t == IF s # << >> /\ IsSpace(s[1]) THEN Trim(s) ELSE s
      neg == t # << >> /\ t[1] = "-"
      u == IF t # << >> /\ t[1] \in {"-", "+"} THEN Tail(t) ELSE t
      int == DigitPrefix(u)
      rest == SubSeq(u, Len(int) + 1, Len(u))
      frac == IF rest # << >> /\ rest[1] = "." THEN DigitPrefix(Tail(rest)) ELSE << >>
      frac2 == SubSeq(frac \o << "0", "0" >>, 1, 2)
      mag == ParseInt(int) * Scale + ParseInt(frac2)
  IN IF int = << >> /\ frac = << >> THEN Failed
     ELSE Parsed(IF neg THEN 0 - mag ELSE mag)

\* A half that is rounded downward: Math.floor(amount / 2)
RoundHalfDown(amount) == amount \div 2

\* A half that is always rounded to the next integer: Math.floor(amount / 2) + 1
RoundHalfNext(amount) == (amount \div 2) + 1

\* Math.round(amount / 2) of an integer amount >= 0: halves round upward
RoundHalf(amount) == (amount + 1) \div 2

\* parseFloat((amount / 3).toFixed(2)), amount and result in hundredths:
\* the nearest hundredth (a third is never half way)
ThirdFixed2(h) ==
  LET m == IF h < 0 THEN 0 - h ELSE h
      r == (m \div 3) + (IF m % 3 = 2 THEN 1 ELSE 0)
  IN IF h < 0 THEN 0 - r ELSE r

\* --------------------------------------------------------------- messages
\* The free-text messages users send under Spec: an amount with a note, and
\* a message with no amount.
Texts ==
  { << "3", " ", "a" >>,
    << "x" >> }

\* The messages under SpecFlow: an even and an odd amount, with and without a
\* note, a thousands separator (a fraction for parseFloat), and a message
\* with no amount.
FlowTexts ==
  { << "4", " ", "a" >>,
    << "3" >>,
    << "1", ".", "5", " ", "b" >>,
    << "x" >> }

\* The messages under SpecGuide: the amount 50000 in three of the forms the
\* guidance reply of part_000 lists, each with the note "snacks".
GuideTexts ==
  { << "5", "0", " ", "0", "0", "0", " ", "s", "n", "a", "c", "k", "s" >>,
    << "5", "0", ".", "0", "0", "0", " ", "s", "n", "a", "c", "k", "s" >>,
    << "5", "0", "0", "0", "0", " ", "s", "n", "a", "c", "k", "s" >> }

\* ------------------------------------------------------------------ state
VARIABLES
  variant,    \* which of the two programs runs
  ADMIN_ID,   \* process.env.ADMIN_ID
  entries,    \* the Entry collection, in insertion order
  sessions,   \* the Session collection: one record per user id
  prompts,    \* the inline-keyboard prompts each chat has received
  last,       \* the update handled last: [op, user, delta]
  sent,       \* the outbound messages of that handler, in order
  jobPc,      \* the position of the scheduled job in sendMonthlyReportAndClear
  jobReport,  \* the entries and balances the running job read
  parse,      \* a call of parseKrwAmount: its argument and what it returned
  pending,    \* the text handlers that have read their session and not yet
              \* acted on it, in the order of their reads
  tally       \* per counted identity, the counters kept for it: the selections
              \* of a participant or of the split it made, the commits made
              \* for it, the clear prompts (rounds) it was sent, the
              \* approve_clear and deny_clear answers it gave

vars ==
  << variant, ADMIN_ID, entries, sessions, prompts, last, sent, jobPc, jobReport,
     parse, pending, tally >>

\* const ALLOWED_USERS, in the order of the array
ALLOWED_USERS ==
  IF variant = "two" THEN << U1, U2 >> ELSE << U1, U2, JYAN_ID >>

Range(f) == { f[i] : i \in DOMAIN f }

Allowed == Range(ALLOWED_USERS)

\* the identities that send updates to the bot
Senders == Allowed \cup {Stranger}

\* type UserName, in the order the text handler lists the participants
UserNames ==
  IF variant = "two" THEN << "Sheyx", "Polvon" >> ELSE << "Sheyx", "Polvon", "Jyan" >>

RECURSIVE SumOf(_, _)
\* the sum of the amounts of the entries of es that carry the name n
SumOf(es, n) ==
  IF es = << >> THEN 0
  ELSE (IF es[1].name = n THEN es[1].amount ELSE 0) + SumOf(Tail(es), n)

NoSession == [exists |-> FALSE, name |-> NULL, mode |-> NULL]

Msg(to, kind) == [to |-> to, kind |-> kind, ok |-> TRUE]

Lost(to, kind) == [to |-> to, kind |-> kind, ok |-> FALSE]

\* The last, rather than the first, allow-listed identity other than userId.
OtherUserLast(userId) ==
  LET k == CHOOSE i \in 1..Len(ALLOWED_USERS) :
             /\ ALLOWED_USERS[i] # userId
             /\ \A j \in (i + 1)..Len(ALLOWED_USERS) : ALLOWED_USERS[j] = userId
  IN ALLOWED_USERS[k]

\* ALLOWED_USERS.find(uid => uid !== userId)
OtherUser(userId) ==
  LET k == CHOOSE i \in 1..Len(ALLOWED_USERS) :
             /\ ALLOWED_USERS[i] # userId
             /\ \A j \in 1..(i - 1) : ALLOWED_USERS[j] = userId
  IN ALLOWED_USERS[k]

\* the identities of  for (uid of ALLOWED_USERS) if (uid !== userId),  in order
OtherUsers(userId) == SelectSeq(ALLOWED_USERS, LAMBDA uid : uid # userId)

\* Session.findOneAndUpdate({userId}, update, {upsert}); update is a record
\* with the fields to set
findOneAndUpdate(ss, userId, update, upsert) ==
  LET old == ss[userId]
      name == IF "name" \in DOMAIN update THEN update.name ELSE old.name
      mode == IF "mode" \in DOMAIN update THEN update.mode ELSE old.mode
  IN IF ~old.exists /\ ~upsert THEN ss
     ELSE [ss EXCEPT ![userId] = [exists |-> TRUE, name |-> name, mode |-> mode]]

\* the fields the cancel and reset updates clear
Cleared == IF variant = "two" THEN [name |-> NULL, mode |-> NULL] ELSE [name |-> NULL]

\* Prompts that carry the same buttons for every identity.
ButtonsOfUnrestricted(p, userId) ==
  CASE p.kind = "add" ->
         {"choose_" \o UserNames[i] : i \in 1..Len(UserNames)}
           \cup {"choose_Umumiy", "choose_cancel"}
    [] p.kind = "type" -> {"type_expenses", "type_debt", "choose_cancel"}
    [] p.kind = "clear" -> {"approve_clear", "deny_clear"}
    [] p.kind = "balance" ->
         {"balance_" \o UserNames[i] : i \in 1..Len(UserNames)}
           \cup {"balance_total"}

\* the callback tokens of a prompt
ButtonsOf(p, userId) ==
  CASE p.kind = "add" ->
         IF variant = "three" /\ userId = JYAN_ID
         THEN {"choose_Umumiy", "choose_cancel"}
         ELSE {"choose_" \o UserNames[i] : i \in 1..Len(UserNames)}
                \cup {"choose_Umumiy", "choose_cancel"}
    [] p.kind = "type" -> {"type_expenses", "type_debt", "choose_cancel"}
    [] p.kind = "clear" -> {"approve_clear", "deny_clear"}
    [] p.kind = "balance" ->
         IF variant = "three" /\ userId = JYAN_ID
         THEN {"balance_Jyan"}
         ELSE {"balance_" \o UserNames[i] : i \in 1..Len(UserNames)}
                \cup {"balance_total"}

\* A callback query comes from a button of a prompt the chat holds.  An
\* identity off the allow-list is let send any update.
CanTap(userId, token) ==
  \/ userId \notin Allowed
  \/ \E p \in prompts[userId] : token \in ButtonsOf(p, userId)

Prompt(kind, from) == [kind |-> kind, from |-> from]

SelectionOps == {"choose_Umumiy", "choose_person"}

AnswerOps == {"approve_clear", "deny_clear"}

\* the tally t with the counter of u raised, where that counter is kept
Bumped(t, u, counter) ==
  IF u \in DOMAIN t /\ counter \in DOMAIN t[u]
  THEN [t EXCEPT ![u][counter] = @ + 1]
  ELSE t

\* the tally after a step of the handler op for userId that changed the
\* number of stored entries by delta; a text handler that stores entries
\* makes a commit, a /clear whose prompt is delivered opens a round for the
\* identity prompted
Tallied(op, userId, delta) ==
  CASE op \in SelectionOps -> Bumped(tally, userId, "selections")
    [] op = "text" /\ delta > 0 -> Bumped(tally, userId, "commits")
    [] op \in AnswerOps -> Bumped(tally, userId, "answers")
    [] op = "clear" /\ \E i \in 1..Len(sent') : sent'[i].kind = "clear_prompt" /\ sent'[i].ok
         -> LET i == CHOOSE j \in 1..Len(sent') :
                       sent'[j].kind = "clear_prompt" /\ sent'[j].ok
            IN Bumped(tally, sent'[i].to, "rounds")
    [] OTHER -> tally

\* The record of the update handled: the handler, the sender, and the change
\* of the number of stored entries.
Stamp(op, userId) ==
  /\ last' = [op |-> op, user |-> userId, delta |-> Len(entries') - Len(entries)]
  /\ tally' = Tallied(op, userId, Len(entries') - Len(entries))

\* A middleware that lets every sender through.
AuthorizedAny(userId) == TRUE

\* bot.use: the allow-list test of the middleware
Authorized(userId) == userId \in Allowed

\* bot.use: the refusal of an identity off the allow-list
Refuse(userId) ==
  /\ sent' = << Msg(ADMIN_ID, "alert"), Msg(userId, "refusal") >>
  /\ UNCHANGED << variant, ADMIN_ID, parse, pending, entries, sessions, prompts, jobPc, jobReport >>
  /\ Stamp("unauthorized", userId)

\* bot.use followed by the handler it guards
Guarded(userId, handler) == IF Authorized(userId) THEN handler ELSE Refuse(userId)

\* Balances that leave out the oldest stored entry.
getBalancesSkipFirst(es) ==
  [balances |-> [n \in Range(UserNames) |->
                   SumOf(IF es = << >> THEN es ELSE Tail(es), n)],
   entries |-> es]

\* getBalances(): the sum of the amounts per participant, and the entries read
getBalances(es) ==
  [balances |-> [n \in Range(UserNames) |-> SumOf(es, n)], entries |-> es]

NoReport == [balances |-> << >>, entries |-> << >>]

\* no call of parseKrwAmount under way
NoParse == [raw |-> << >>, done |-> FALSE, result |-> Failed]

\* The state after launch, for the given programs and administrator ids, the
\* given counters being kept for the identities of counted.
InitWith(variants, admins, counted, counters) ==
  /\ variant \in variants
  /\ ADMIN_ID \in admins
  /\ entries = << >>
  /\ sessions = [u \in Ids |-> NoSession]
  /\ prompts = [u \in Ids |-> {}]
  /\ last = [op |-> "launch", user |-> ADMIN_ID, delta |-> 0]
  /\ sent = << >>
  /\ jobPc = "idle"
  /\ jobReport = NoReport
  /\ parse = NoParse
  /\ pending = << >>
  /\ tally = [u \in counted |-> [c \in counters |-> 0]]

InitOver(variants, admins) == InitWith(variants, admins, {}, {})

Init == InitOver(Variants, {U1})

\* ------------------------------------------------------- selection flow
\* bot.command('add')
Add(userId) ==
  Guarded(userId,
    /\ sessions' = findOneAndUpdate(sessions, userId, Cleared, TRUE)
    /\ prompts' = [prompts EXCEPT ![userId] = @ \cup {Prompt("add", userId)}]
    /\ sent' = << Msg(userId, "add_prompt") >>
    /\ UNCHANGED << variant, ADMIN_ID, parse, pending, entries, jobPc, jobReport >>
    /\ Stamp("add", userId))

\* bot.action('choose_Umumiy')
ChooseUmumiy(userId) ==
  /\ CanTap(userId, "choose_Umumiy")
  /\ Guarded(userId,
       /\ sessions' = findOneAndUpdate(sessions, userId,
                        IF variant = "two" THEN [name |-> Umumiy, mode |-> NULL]
                        ELSE [name |-> Umumiy], TRUE)
       /\ sent' = << Msg(userId, "amount_prompt") >>
       /\ UNCHANGED << variant, ADMIN_ID, parse, pending, entries, prompts, jobPc, jobReport >>
       /\ Stamp("choose_Umumiy", userId))

\* bot.action('choose_cancel')
ChooseCancel(userId) ==
  /\ CanTap(userId, "choose_cancel")
  /\ Guarded(userId,
       /\ sessions' = findOneAndUpdate(sessions, userId, Cleared, FALSE)
       /\ sent' = << Msg(userId, "cancelled") >>
       /\ UNCHANGED << variant, ADMIN_ID, parse, pending, entries, prompts, jobPc, jobReport >>
       /\ Stamp("choose_cancel", userId))

\* A /cancel that clears the name only.
CancelNameOnly(userId) ==
  Guarded(userId,
    /\ sessions' = findOneAndUpdate(sessions, userId, [name |-> NULL], FALSE)
    /\ sent' = << Msg(userId, "cancelled") >>
    /\ UNCHANGED << variant, ADMIN_ID, parse, pending, entries, prompts, jobPc, jobReport >>
    /\ Stamp("cancel", userId))

\* bot.command('cancel')
Cancel(userId) ==
  Guarded(userId,
    /\ sessions' = findOneAndUpdate(sessions, userId, Cleared, FALSE)
    /\ sent' = << Msg(userId, "cancelled") >>
    /\ UNCHANGED << variant, ADMIN_ID, parse, pending, entries, prompts, jobPc, jobReport >>
    /\ Stamp("cancel", userId))

\* bot.action(/choose_(Sheyx|Polvon)/), bot.action(/choose_(Sheyx|Polvon|Jyan)/)
ChoosePerson(userId, chosenName) ==
  /\ CanTap(userId, "choose_" \o chosenName)
  /\ Guarded(userId,
       /\ sessions' = findOneAndUpdate(sessions, userId,
                        IF variant = "two" THEN [name |-> chosenName, mode |-> NULL]
                        ELSE [name |-> chosenName], TRUE)
       /\ IF variant = "two"
          THEN /\ prompts' = [prompts EXCEPT ![userId] = @ \cup {Prompt("type", userId)}]
               /\ sent' = << Msg(userId, "type_prompt") >>
          ELSE /\ prompts' = prompts
               /\ sent' = << Msg(userId, "amount_prompt") >>
       /\ UNCHANGED << variant, ADMIN_ID, parse, pending, entries, jobPc, jobReport >>
       /\ Stamp("choose_person", userId))

\* bot.action('type_expenses'), bot.action('type_debt')
ChooseType(userId, mode) ==
  /\ variant = "two"
  /\ CanTap(userId, "type_" \o mode)
  /\ Guarded(userId,
       /\ sessions' = findOneAndUpdate(sessions, userId, [mode |-> mode], FALSE)
       /\ sent' = << Msg(userId, "amount_prompt") >>
       /\ UNCHANGED << variant, ADMIN_ID, parse, pending, entries, prompts, jobPc, jobReport >>
       /\ Stamp("type_" \o mode, userId))

\* No identity other than userId is in the middle of a conversation.
OnlySpeaker(userId) ==
  \A w \in Ids \ {userId} : sessions[w].name = NULL /\ sessions[w].mode = NULL

\* The selection updates the identities of senders send; with oneAtATime, a
\* selection is made only while no one else is in a conversation.
SelectionNext(senders, oneAtATime) ==
  \E userId \in senders :
    \/ Add(userId)
    \/ ChooseCancel(userId)
    \/ Cancel(userId)
    \/ /\ oneAtATime => OnlySpeaker(userId)
       /\ \/ ChooseUmumiy(userId)
          \/ \E i \in 1..Len(UserNames) : ChoosePerson(userId, UserNames[i])
          \/ \E mode \in {"expenses", "debt"} : ChooseType(userId, mode)

\* ------------------------------------------------------------ text handler
\* nanoid(): an id no stored entry carries
NewId(es) ==
  CHOOSE n \in 1..(Len(es) + 1) :
    /\ \A i \in 1..Len(es) : es[i].id # n
    /\ \A m \in 1..(n - 1) : \E i \in 1..Len(es) : es[i].id = m

Doc(name, amount, note) == [name |-> name, amount |-> amount, note |-> note]

RECURSIVE Insert(_, _)
\* the documents docs, each given its id, appended to the collection
Insert(es, docs) ==
  IF docs = << >> THEN es
  ELSE Insert(Append(es, [id |-> NewId(es), name |-> docs[1].name,
                          amount |-> docs[1].amount, note |-> docs[1].note]),
              Tail(docs))

\* A split that gives the first participant the rounded half and the second
\* the rest.
SplitDocs2Rest(amount, note) ==
  << Doc(UserNames[1], RoundHalf(amount) * Scale, note),
     Doc(UserNames[2], (amount - RoundHalf(amount)) * Scale, note) >>

\* The split commit of variant "two": Math.round(amount / 2) for each of
\* Sheyx and Polvon.
SplitDocs2(amount, note) ==
  [i \in 1..2 |-> Doc(UserNames[i], RoundHalf(amount) * Scale, note)]

\* An expenses commit that also records the other participant's half.
ExpensesDocsBoth(name, amount, note) ==
  [i \in 1..2 |-> Doc(UserNames[i], RoundHalf(amount) * Scale, note)]

\* The expenses commit: the chosen person's half only.
ExpensesDocs(name, amount, note) == << Doc(name, RoundHalf(amount) * Scale, note) >>

\* A debt commit that records half of the amount, as an expense would.
DebtDocsHalved(name, amount, note) == << Doc(name, RoundHalf(amount) * Scale, note) >>

\* The debt (or default) commit: the full amount for the chosen person.
DebtDocs(name, amount, note) == << Doc(name, amount * Scale, note) >>

\* A split stored as one entry under the split-target label.
SplitDocs3Label(amount, note) == << Doc(Umumiy, amount, note) >>

\* The split commit of variant "three": (amount / 3).toFixed(2) for each of
\* Sheyx, Polvon and Jyan.
SplitDocs3(amount, note) ==
  [i \in 1..3 |-> Doc(UserNames[i], ThirdFixed2(amount), note)]

\* The single-person commit of variant "three".
SingleDocs(name, amount, note) == << Doc(name, amount, note) >>

\* bot.on('text') of part_000: the amount and the note read from the message
\* text.  (A function of the text alone, tabulated over the messages of the
\* model.)
AllTexts == Texts \cup FlowTexts \cup GuideTexts

Read2 ==
  [text \in AllTexts |->
     LET parts == Split(Trim(text))
     IN [amount |-> parseKrwAmount(parts[1]), note |-> NoteOf(parts)]]

\* bot.on('text') of app.ts: the amount and the note read from the message text
Read3 ==
  [text \in AllTexts |->
     LET parts == Split(text)
     IN [amount |-> parseFloat(parts[1]), note |-> NoteOf(parts)]]

\* A text handler that waits for the entry type of a participant to be chosen.
TextPlan2ModeRequired(session, text) ==
  LET amount == Read2[text].amount
      note == Read2[text].note
  IN IF ~session.exists \/ session.name = NULL THEN [kind |-> "ignore", docs |-> << >>]
     ELSE IF session.name # Umumiy /\ session.mode = NULL
       THEN [kind |-> "ignore", docs |-> << >>]
     ELSE IF ~amount.ok THEN [kind |-> "invalid", docs |-> << >>]
     ELSE IF session.name = Umumiy
       THEN [kind |-> "split", docs |-> SplitDocs2(amount.value, note)]
     ELSE IF session.mode = "expenses"
       THEN [kind |-> "expenses", docs |-> ExpensesDocs(session.name, amount.value, note)]
     ELSE [kind |-> "debt", docs |-> DebtDocs(session.name, amount.value, note)]

\* A text handler that tests for the session record only, not for its name.
TextPlan2NoNameCheck(session, text) ==
  LET amount == Read2[text].amount
      note == Read2[text].note
  IN IF ~session.exists THEN [kind |-> "ignore", docs |-> << >>]
     ELSE IF ~amount.ok THEN [kind |-> "invalid", docs |-> << >>]
     ELSE IF session.name = Umumiy
       THEN [kind |-> "split", docs |-> SplitDocs2(amount.value, note)]
     ELSE IF session.mode = "expenses"
       THEN [kind |-> "expenses", docs |-> ExpensesDocs(session.name, amount.value, note)]
     ELSE [kind |-> "debt", docs |-> DebtDocs(session.name, amount.value, note)]

\* bot.on('text') of part_000 up to the commit: what the handler does with the
\* session it read and the message text
TextPlan2(session, text) ==
  LET amount == Read2[text].amount
      note == Read2[text].note
  IN IF ~session.exists \/ session.name = NULL THEN [kind |-> "ignore", docs |-> << >>]
     ELSE IF ~amount.ok THEN [kind |-> "invalid", docs |-> << >>]
     ELSE IF session.name = Umumiy
       THEN [kind |-> "split", docs |-> SplitDocs2(amount.value, note)]
     ELSE IF session.mode = "expenses"
       THEN [kind |-> "expenses", docs |-> ExpensesDocs(session.name, amount.value, note)]
     ELSE [kind |-> "debt", docs |-> DebtDocs(session.name, amount.value, note)]

\* A text handler without the amount check: what is no amount is recorded
\* as the amount 0.
TextPlan3Unchecked(session, text) ==
  LET amount == Read3[text].amount
      note == Read3[text].note
  IN IF ~session.exists \/ session.name = NULL THEN [kind |-> "ignore", docs |-> << >>]
     ELSE IF session.name = Umumiy
       THEN [kind |-> "split", docs |-> [i \in 1..3 |-> Doc(UserNames[i], 0, note)]]
     ELSE [kind |-> "single", docs |-> << Doc(session.name, amount.value, note) >>]

\* bot.on('text') of app.ts up to the commit
TextPlan3(session, text) ==
  LET amount == Read3[text].amount
      note == Read3[text].note
  IN IF ~session.exists \/ session.name = NULL THEN [kind |-> "ignore", docs |-> << >>]
     ELSE IF ~amount.ok THEN [kind |-> "invalid", docs |-> << >>]
     ELSE IF session.name = Umumiy
       THEN [kind |-> "split", docs |-> SplitDocs3(amount.value, note)]
     ELSE [kind |-> "single", docs |-> SingleDocs(session.name, amount.value, note)]

TextPlan(session, text) ==
  IF variant = "two" THEN TextPlan2(session, text) ELSE TextPlan3(session, text)

\* The steps of a commit that can fail: the entry write, the session reset,
\* the awaited confirmation (part_000 only; app.ts does not await it) and the
\* k-th notification.
TextFails == {"none", "insert", "reset", "reply", "notify1", "notify2"}

\* no failure, or a failing store write
StoreFails == {"none", "insert", "reset"}

NotifyFailAt(fail) == CASE fail = "notify1" -> 1 [] fail = "notify2" -> 2 [] OTHER -> 0

\* the notification loop: it stops at the first delivery that throws
Notices(userId, fail) ==
  LET others == OtherUsers(userId)
      k == NotifyFailAt(fail)
  IN IF k = 0 THEN [i \in 1..Len(others) |-> Msg(others[i], "commit_notice")]
     ELSE [i \in 1..k |-> IF i < k THEN Msg(others[i], "commit_notice")
                          ELSE Lost(others[i], "commit_notice")]

\* bot.on('text'): the commit inside try/catch, with the step that fails (if
\* any) and, for a failing entry write, the number of documents already stored
Commit(userId, plan, fail, stored, cap) ==
  /\ Len(entries) < cap
  /\ fail = "reply" => variant = "two"
  /\ NotifyFailAt(fail) <= Len(OtherUsers(userId))
  /\ stored < Len(plan.docs)
  /\ fail # "insert" => stored = 0
  /\ entries' = IF fail = "insert" THEN Insert(entries, SubSeq(plan.docs, 1, stored))
                ELSE Insert(entries, plan.docs)
  /\ sessions' = IF fail \in {"insert", "reset"} THEN sessions
                 ELSE findOneAndUpdate(sessions, userId, Cleared, FALSE)
  /\ sent' = CASE fail \in {"insert", "reset"} -> << Msg(userId, "error") >>
               [] fail = "reply" -> << Lost(userId, plan.kind), Msg(userId, "error") >>
               [] fail = "none" -> << Msg(userId, plan.kind) >> \o Notices(userId, fail)
               [] OTHER -> << Msg(userId, plan.kind) >> \o Notices(userId, fail)
                             \o << Msg(userId, "error") >>

\* bot.on('text')
Text(userId, text, fail, stored, cap) ==
  Guarded(userId,
    LET plan == TextPlan(sessions[userId], text)
    IN /\ CASE plan.kind = "ignore" ->
                 /\ fail = "none" /\ stored = 0
                 /\ sent' = << >>
                 /\ UNCHANGED << entries, sessions >>
            [] plan.kind = "invalid" ->
                 /\ fail = "none" /\ stored = 0
                 /\ sent' = << Msg(userId, "invalid_amount") >>
                 /\ UNCHANGED << entries, sessions >>
            [] OTHER -> Commit(userId, plan, fail, stored, cap)
       /\ UNCHANGED << variant, ADMIN_ID, parse, pending, prompts, jobPc, jobReport >>
       /\ Stamp("text", userId))

\* bot.on('text') up to its first await: the middleware, and the session read
\* by Session.findOne
TextRead(userId, text) ==
  /\ Len(pending) < MaxPending
  /\ Guarded(userId,
       /\ pending' = Append(pending,
                        [user |-> userId, session |-> sessions[userId], text |-> text])
       /\ sent' = << >>
       /\ UNCHANGED << variant, ADMIN_ID, parse, entries, sessions, prompts, jobPc,
                       jobReport >>
       /\ Stamp("text_read", userId))

\* the sequence q without its i-th element
Dropped(q, i) == SubSeq(q, 1, i - 1) \o SubSeq(q, i + 1, Len(q))

\* bot.on('text') after its session read: the i-th pending handler acts on
\* the session it read, whatever the stored session has become.  (Its entry
\* write and its session reset are taken as one step: a read between the two
\* sees the session a read before both sees.)
TextAct(i, cap) ==
  /\ i \in 1..Len(pending)
  /\ LET h == pending[i]
         plan == TextPlan(h.session, h.text)
     IN /\ CASE plan.kind = "ignore" ->
                  /\ sent' = << >>
                  /\ UNCHANGED << entries, sessions >>
             [] plan.kind = "invalid" ->
                  /\ sent' = << Msg(h.user, "invalid_amount") >>
                  /\ UNCHANGED << entries, sessions >>
             [] OTHER -> Commit(h.user, plan, "none", 0, cap)
        /\ pending' = Dropped(pending, i)
        /\ UNCHANGED << variant, ADMIN_ID, parse, prompts, jobPc, jobReport >>
        /\ Stamp("text", h.user)

\* (A refused update has no step to fail: one text and no failure stand for
\* all of them.)
TextNext(senders, texts, fails, cap) ==
  \E userId \in senders :
    \E text \in (IF userId \in Allowed THEN texts ELSE {CHOOSE t \in texts : TRUE}) :
      \E fail \in (IF userId \in Allowed THEN fails ELSE {"none"}) :
        \E stored \in (IF fail = "insert" THEN 0..2 ELSE {0}) :
          Text(userId, text, fail, stored, cap)

\* ------------------------------------------------------- clear with approval
\* A /clear that empties the ledger at once, without asking anyone.
ClearAtOnce(userId, fail) ==
  Guarded(userId,
    /\ fail = "none"
    /\ entries' = << >>
    /\ sent' = << Msg(userId, "cleared") >>
    /\ UNCHANGED << variant, ADMIN_ID, parse, pending, sessions, prompts, jobPc, jobReport >>
    /\ Stamp("clear", userId))

\* bot.command('clear'); fail names the step that throws inside try: the
\* report (reading the entries, writing the file, sending it to the
\* administrator) or the prompt
Clear(userId, fail) ==
  Guarded(userId,
    /\ IF variant = "three" /\ userId = JYAN_ID
       THEN /\ fail = "none"
            /\ sent' = << Msg(userId, "clear_refused") >>
            /\ prompts' = prompts
       ELSE IF ~Authorized(userId)
       THEN /\ fail = "none"
            /\ sent' = << Msg(userId, "not_authorized") >>
            /\ prompts' = prompts
       ELSE IF variant = "three" /\ fail # "report" /\ entries = << >>
       THEN /\ fail = "none"
            /\ sent' = << Msg(userId, "nothing_to_clear") >>
            /\ prompts' = prompts
       ELSE CASE fail = "report" ->
                   /\ sent' = << Msg(userId, "error") >>
                   /\ prompts' = prompts
              [] fail = "prompt" ->
                   /\ sent' = << Msg(ADMIN_ID, "report"),
                                 Lost(OtherUser(userId), "clear_prompt"),
                                 Msg(userId, "error") >>
                   /\ prompts' = prompts
              [] OTHER ->
                   /\ fail = "none"
                   /\ sent' = << Msg(ADMIN_ID, "report"),
                                 Msg(OtherUser(userId), "clear_prompt"),
                                 Msg(userId, "clear_requested") >>
                   /\ prompts' = [prompts EXCEPT ![OtherUser(userId)] =
                                    @ \cup {Prompt("clear", userId)}]
    /\ UNCHANGED << variant, ADMIN_ID, parse, pending, entries, sessions, jobPc, jobReport >>
    /\ Stamp("clear", userId))

\* An approval that withdraws the clear prompts it answers.
ApproveClearOnce(userId) ==
  /\ CanTap(userId, "approve_clear")
  /\ Guarded(userId,
       /\ IF variant = "three" /\ userId = JYAN_ID
          THEN /\ sent' = << Msg(userId, "approve_refused") >>
               /\ entries' = entries
          ELSE IF ~Authorized(userId)
          THEN /\ sent' = << Msg(userId, "not_authorized") >>
               /\ entries' = entries
          ELSE /\ entries' = << >>
               /\ sent' = << Msg(userId, "cleared"),
                             Msg(OtherUser(userId), "cleared_notice") >>
       /\ prompts' = [prompts EXCEPT ![userId] = { p \in @ : p.kind # "clear" }]
       /\ UNCHANGED << variant, ADMIN_ID, parse, pending, sessions, jobPc, jobReport >>
       /\ Stamp("approve_clear", userId))

\* An approval that reports an error when there is nothing to delete.
ApproveClearNonEmpty(userId) ==
  /\ CanTap(userId, "approve_clear")
  /\ Guarded(userId,
       /\ IF variant = "three" /\ userId = JYAN_ID
          THEN /\ sent' = << Msg(userId, "approve_refused") >>
               /\ entries' = entries
          ELSE IF ~Authorized(userId)
          THEN /\ sent' = << Msg(userId, "not_authorized") >>
               /\ entries' = entries
          ELSE IF entries = << >>
          THEN /\ sent' = << Msg(userId, "error") >>
               /\ entries' = entries
          ELSE /\ entries' = << >>
               /\ sent' = << Msg(userId, "cleared"),
                             Msg(OtherUser(userId), "cleared_notice") >>
       /\ UNCHANGED << variant, ADMIN_ID, parse, pending, sessions, prompts, jobPc, jobReport >>
       /\ Stamp("approve_clear", userId))

\* bot.action('approve_clear')
ApproveClear(userId) ==
  /\ CanTap(userId, "approve_clear")
  /\ Guarded(userId,
       /\ IF variant = "three" /\ userId = JYAN_ID
          THEN /\ sent' = << Msg(userId, "approve_refused") >>
               /\ entries' = entries
          ELSE IF ~Authorized(userId)
          THEN /\ sent' = << Msg(userId, "not_authorized") >>
               /\ entries' = entries
          ELSE /\ entries' = << >>
               /\ sent' = << Msg(userId, "cleared"),
                             Msg(OtherUser(userId), "cleared_notice") >>
       /\ UNCHANGED << variant, ADMIN_ID, parse, pending, sessions, prompts, jobPc, jobReport >>
       /\ Stamp("approve_clear", userId))

\* A denial that tells no one but the denier.
DenyClearSilent(userId) ==
  /\ CanTap(userId, "deny_clear")
  /\ Guarded(userId,
       /\ sent' = << Msg(userId, "denied") >>
       /\ UNCHANGED << variant, ADMIN_ID, parse, pending, entries, sessions, prompts, jobPc, jobReport >>
       /\ Stamp("deny_clear", userId))

\* bot.action('deny_clear')
DenyClear(userId) ==
  /\ CanTap(userId, "deny_clear")
  /\ Guarded(userId,
       /\ IF ~Authorized(userId)
          THEN sent' = << Msg(userId, "not_authorized") >>
          ELSE sent' = << Msg(OtherUser(userId), "denied_notice"),
                          Msg(userId, "denied") >>
       /\ UNCHANGED << variant, ADMIN_ID, parse, pending, entries, sessions, prompts, jobPc, jobReport >>
       /\ Stamp("deny_clear", userId))

\* the entries of es without the first one whose id is entryId
RECURSIVE deleteOne(_, _)
deleteOne(es, entryId) ==
  IF es = << >> THEN es
  ELSE IF es[1].id = entryId THEN Tail(es)
  ELSE << es[1] >> \o deleteOne(Tail(es), entryId)

\* the deletion notices: the loop stops at the first delivery that throws
DeleteNotices(userId, fail) ==
  LET others == OtherUsers(userId)
      k == NotifyFailAt(fail)
  IN IF k = 0 THEN [i \in 1..Len(others) |-> Msg(others[i], "delete_notice")]
     ELSE [i \in 1..k |-> IF i < k THEN Msg(others[i], "delete_notice")
                          ELSE Lost(others[i], "delete_notice")]

\* A /delete without the test for the administrator.
DeleteByAnyone(userId, entryId, fail) ==
  Guarded(userId,
    /\ IF entryId = 0
       THEN /\ fail = "none"
            /\ sent' = << Msg(userId, "usage") >>
            /\ entries' = entries
       ELSE IF \A i \in 1..Len(entries) : entries[i].id # entryId
       THEN /\ fail = "none"
            /\ sent' = << Msg(userId, "not_found") >>
            /\ entries' = entries
       ELSE /\ NotifyFailAt(fail) <= Len(OtherUsers(userId))
            /\ entries' = deleteOne(entries, entryId)
            /\ sent' = << Msg(userId, "deleted") >> \o DeleteNotices(userId, fail)
    /\ UNCHANGED << variant, ADMIN_ID, parse, pending, sessions, prompts, jobPc, jobReport >>
    /\ Stamp("delete", userId))

\* bot.command('delete'); an entryId of 0 stands for a message that does not
\* have exactly two parts
Delete(userId, entryId, fail) ==
  Guarded(userId,
    /\ IF entryId = 0
       THEN /\ fail = "none"
            /\ sent' = << Msg(userId, "usage") >>
            /\ entries' = entries
       ELSE IF \A i \in 1..Len(entries) : entries[i].id # entryId
       THEN /\ fail = "none"
            /\ sent' = << Msg(userId, "not_found") >>
            /\ entries' = entries
       ELSE IF ~Authorized(userId) \/ userId # ADMIN_ID
       THEN /\ fail = "none"
            /\ sent' = << Msg(userId, "not_authorized") >>
            /\ entries' = entries
       ELSE /\ NotifyFailAt(fail) <= Len(OtherUsers(userId))
            /\ entries' = deleteOne(entries, entryId)
            /\ sent' = << Msg(userId, "deleted") >> \o DeleteNotices(userId, fail)
    /\ UNCHANGED << variant, ADMIN_ID, parse, pending, sessions, prompts, jobPc, jobReport >>
    /\ Stamp("delete", userId))

\* ------------------------------------------------------------------ balance
\* bot.command('balance')
Balance(userId) ==
  Guarded(userId,
    /\ prompts' = [prompts EXCEPT ![userId] = @ \cup {Prompt("balance", userId)}]
    /\ sent' = << Msg(userId, "balance_prompt") >>
    /\ UNCHANGED << variant, ADMIN_ID, parse, pending, entries, sessions, jobPc, jobReport >>
    /\ Stamp("balance", userId))

\* the figures of the total-balance reply: of part_000 from getBalances(), of
\* app.ts from the sums the handler builds itself (its Umumiy sum is not shown)
TotalBalances(es) ==
  IF variant = "two" THEN getBalances(es).balances
  ELSE LET balances == [n \in Range(UserNames) \cup {Umumiy} |-> SumOf(es, n)]
       IN [n \in Range(UserNames) |-> balances[n]]

BalanceMsg(to, balances) ==
  [to |-> to, kind |-> "balance", ok |-> TRUE, balances |-> balances]

\* bot.action('balance_total'); threw says that reading the entries throws
BalanceTotal(userId, threw) ==
  /\ CanTap(userId, "balance_total")
  /\ Guarded(userId,
       /\ sent' = IF threw THEN << Msg(userId, "balance_error") >>
                  ELSE << BalanceMsg(userId, TotalBalances(entries)) >>
       /\ UNCHANGED << variant, ADMIN_ID, parse, pending, entries, sessions, prompts, jobPc,
                       jobReport >>
       /\ Stamp("balance_total", userId))

BalanceNext(senders) ==
  \E userId \in senders :
    \/ Balance(userId)
    \/ \E threw \in BOOLEAN : BalanceTotal(userId, threw)

ClearFails == {"none", "report", "prompt"}

ClearNext(senders, fails) ==
  \E userId \in senders :
    \/ \E fail \in fails : Clear(userId, fail)
    \/ ApproveClear(userId)
    \/ DenyClear(userId)

NotifyFails == {"none", "notify1", "notify2"}

DeleteNext(senders, fails) ==
  \E userId \in senders, entryId \in 0..(Len(entries) + 1), fail \in fails :
    Delete(userId, entryId, fail)

\* ------------------------------------------------------------ scheduled job
\* cron.schedule('55 23 10,20,30 * *') of part_000 fires sendMonthlyReportAndClear.
\* Each step below is one awaited call of the job; threw says that it throws.
Cron == "cron"

JobStep(op) ==
  /\ UNCHANGED << variant, ADMIN_ID, parse, pending, sessions, prompts >>
  /\ Stamp(op, Cron)

\* const { balances, entries } = await getBalances()
JobRead(threw) ==
  /\ variant = "two"
  /\ jobPc = "idle"
  /\ jobPc' = IF threw THEN "failed" ELSE "read"
  /\ jobReport' = IF threw THEN NoReport ELSE getBalances(entries)
  /\ sent' = << >>
  /\ entries' = entries
  /\ JobStep("job_read")

\* buildDetailedReportText(entries, balances); fs.writeFileSync(filePath, ...)
JobWrite(threw) ==
  /\ jobPc = "read"
  /\ jobPc' = IF threw THEN "failed" ELSE "written"
  /\ sent' = << >>
  /\ UNCHANGED << entries, jobReport >>
  /\ JobStep("job_write")

\* A delivery loop without its inner try/catch: a delivery that throws ends
\* the job in the outer catch.
JobDeliverAborts(lost) ==
  /\ jobPc = "written"
  /\ jobPc' = IF lost = {} THEN "delivered" ELSE "failed"
  /\ sent' = [i \in 1..Len(ALLOWED_USERS) |->
                IF ALLOWED_USERS[i] \in lost THEN Lost(ALLOWED_USERS[i], "report")
                ELSE Msg(ALLOWED_USERS[i], "report")]
  /\ UNCHANGED << entries, jobReport >>
  /\ JobStep("job_deliver")

\* for (uid of ALLOWED_USERS) try sendDocument(uid) catch: lost is the set of
\* recipients whose delivery throws
JobDeliver(lost) ==
  /\ jobPc = "written"
  /\ jobPc' = "delivered"
  /\ sent' = [i \in 1..Len(ALLOWED_USERS) |->
                IF ALLOWED_USERS[i] \in lost THEN Lost(ALLOWED_USERS[i], "report")
                ELSE Msg(ALLOWED_USERS[i], "report")]
  /\ UNCHANGED << entries, jobReport >>
  /\ JobStep("job_deliver")

\* await Entry.deleteMany({}); when it throws, the store may or may not have
\* applied the deletion
JobDelete(threw, applied) ==
  /\ jobPc = "delivered"
  /\ ~threw => applied
  /\ jobPc' = IF threw THEN "failed" ELSE "deleted"
  /\ entries' = IF applied THEN << >> ELSE entries
  /\ sent' = << >>
  /\ jobReport' = jobReport
  /\ JobStep("job_delete")

\* for (uid of ALLOWED_USERS) try sendMessage(uid, doneMsg) catch
JobNotify(lost) ==
  /\ jobPc = "deleted"
  /\ jobPc' = "idle"
  /\ sent' = [i \in 1..Len(ALLOWED_USERS) |->
                IF ALLOWED_USERS[i] \in lost THEN Lost(ALLOWED_USERS[i], "job_done")
                ELSE Msg(ALLOWED_USERS[i], "job_done")]
  /\ jobReport' = NoReport
  /\ entries' = entries
  /\ JobStep("job_notify")

\* A catch whose failing notice is not swallowed: the rejection escapes the
\* callback and the job is not scheduled again.
JobCatchEscapes(lost) ==
  /\ jobPc = "failed"
  /\ jobPc' = IF lost THEN "crashed" ELSE "idle"
  /\ sent' = << IF lost THEN Lost(ADMIN_ID, "job_failed") ELSE Msg(ADMIN_ID, "job_failed") >>
  /\ jobReport' = NoReport
  /\ entries' = entries
  /\ JobStep("job_catch")

\* the catch of the cron callback: the notice to the administrator, whose own
\* failure is swallowed
JobCatch(lost) ==
  /\ jobPc = "failed"
  /\ jobPc' = "idle"
  /\ sent' = << IF lost THEN Lost(ADMIN_ID, "job_failed") ELSE Msg(ADMIN_ID, "job_failed") >>
  /\ jobReport' = NoReport
  /\ entries' = entries
  /\ JobStep("job_catch")

JobNext ==
  \/ \E threw \in BOOLEAN : JobRead(threw)
  \/ \E threw \in BOOLEAN : JobWrite(threw)
  \/ \E lost \in SUBSET Allowed : JobDeliver(lost)
  \/ \E threw, applied \in BOOLEAN : JobDelete(threw, applied)
  \/ \E lost \in SUBSET Allowed : JobNotify(lost)
  \/ \E lost \in BOOLEAN : JobCatch(lost)

\* ---------------------------------------------------------- specifications
\* Spec: the whole program, every handler run to completion before the next
\* update or job step is taken, one conversation at a time, no call of a user
\* handler failing.
UserNext ==
  \/ SelectionNext(Senders, TRUE)
  \/ TextNext(Senders, Texts, {"none"}, MaxLedger)
  \/ ClearNext(Senders, {"none"})
  \/ DeleteNext(Senders, {"none"})

Next == (jobPc = "idle" /\ UserNext) \/ JobNext

Spec == Init /\ [][Next]_vars

\* SpecFlow: the add conversation of every allow-listed identity, one
\* conversation at a time, over more messages, no call failing.
NextFlow ==
  \/ SelectionNext(Allowed, TRUE)
  \/ TextNext(Allowed, FlowTexts, {"none"}, MaxLedger)

SpecFlow == Init /\ [][NextFlow]_vars

\* SpecClear: the clear protocol with its failures, the ledger filled by one
\* conversation at a time.
NextClear ==
  \/ SelectionNext(Senders, TRUE)
  \/ TextNext(Senders, Texts, {"none"}, MaxLedger)
  \/ ClearNext(Senders, ClearFails)

SpecClear == Init /\ [][NextClear]_vars

\* SpecJob: the scheduled job of part_000 beside the conversations and the
\* clear protocol.
NextJob ==
  \/ /\ jobPc = "idle"
     /\ \/ SelectionNext(Senders, TRUE)
        \/ TextNext(Senders, Texts, {"none"}, MaxLedger)
        \/ ClearNext(Senders, {"none"})
  \/ JobNext

SpecJob == InitOver({"two"}, {U1, AdminOnly}) /\ [][NextJob]_vars

\* SpecNotify: the broadcasts of the commits, of /delete and of the scheduled
\* job, with deliveries that fail.
NextNotify ==
  \/ /\ jobPc = "idle"
     /\ \/ SelectionNext(Allowed, TRUE)
        \/ TextNext(Allowed, Texts, NotifyFails, MaxLedger)
        \/ DeleteNext(Allowed, NotifyFails)
  \/ JobNext

SpecNotify == Init /\ [][NextNotify]_vars

\* SpecRetry: the add conversation with the store failures of a commit, the
\* ledger given room for the commit that follows a failed one.
NextRetry ==
  \/ SelectionNext(Allowed, TRUE)
  \/ TextNext(Allowed, Texts, StoreFails, MaxLedger + 1)

SpecRetry == Init /\ [][NextRetry]_vars

\* SpecDelete: /delete from every sender beside the add conversation, the
\* administrator being the first allow-listed identity or an identity off the
\* allow-list.
NextDelete ==
  \/ SelectionNext(Allowed, TRUE)
  \/ TextNext(Allowed, Texts, {"none"}, MaxLedger)
  \/ DeleteNext(Senders, {"none"})

SpecDelete == InitOver(Variants, {U1, Stranger}) /\ [][NextDelete]_vars

\* SpecBalance: the total balance asked for by every allow-listed identity
\* beside the add conversation of the first, the ledger given room for a
\* second commit.
NextBalance ==
  \/ SelectionNext({ALLOWED_USERS[1]}, TRUE)
  \/ TextNext({ALLOWED_USERS[1]}, Texts, {"none"}, MaxLedger + 1)
  \/ BalanceNext(Allowed)

SpecBalance == Init /\ [][NextBalance]_vars

\* SpecRace: the updates handled concurrently, as bot.launch() hands them to
\* the handlers: a text handler reads its session in one step and acts in a
\* later one, and other handlers run in between.  The selections and commits
\* of every allow-listed identity are counted.
NextRace ==
  \/ \E userId \in Allowed :
       /\ tally[userId].selections < MaxSelections
       /\ SelectionNext({userId}, TRUE)
  \/ \E userId \in Allowed, text \in Texts : TextRead(userId, text)
  \/ \E i \in 1..MaxPending : TextAct(i, MaxLedger + 1)

InitRace == InitWith(Variants, {U1}, Allowed, {"selections", "commits"})

SpecRace == InitRace /\ [][NextRace]_vars

\* SpecJobRace: the scheduled job of part_000 with the add conversation of
\* the first identity handled between its awaited calls.
NextJobRace ==
  \/ SelectionNext({ALLOWED_USERS[1]}, TRUE)
  \/ TextNext({ALLOWED_USERS[1]}, Texts, {"none"}, MaxLedger + 1)
  \/ JobNext

SpecJobRace == InitOver({"two"}, {U1}) /\ [][NextJobRace]_vars

\* SpecGuide: the add conversation of part_000 over the messages of the
\* guidance reply.
NextGuide ==
  \/ SelectionNext(Allowed, TRUE)
  \/ TextNext(Allowed, GuideTexts, {"none"}, MaxLedger)

SpecGuide == InitOver({"two"}, {U1}) /\ [][NextGuide]_vars

\* SpecStale: the clear protocol with its rounds and answers counted, beside
\* the add conversation of the first identity.
NextStale ==
  \/ SelectionNext({ALLOWED_USERS[1]}, TRUE)
  \/ TextNext({ALLOWED_USERS[1]}, Texts, {"none"}, MaxLedger)
  \/ \E userId \in Allowed :
       /\ \A w \in Allowed : tally[w].rounds < MaxRounds
       /\ Clear(userId, "none")
  \/ \E userId \in Allowed :
       /\ tally[userId].answers <= MaxRounds
       /\ (ApproveClear(userId) \/ DenyClear(userId))

InitStale == InitWith(Variants, {U1}, Allowed, {"rounds", "answers"})

SpecStale == InitStale /\ [][NextStale]_vars

\* SpecDefault: the add conversation of part_000 in which the users never
\* press a button of the type prompt.
NextDefault ==
  \/ \E userId \in Allowed :
       \/ Add(userId)
       \/ Cancel(userId)
       \/ ChooseUmumiy(userId)
       \/ \E i \in 1..Len(UserNames) : ChoosePerson(userId, UserNames[i])
  \/ TextNext(Allowed, FlowTexts, {"none"}, MaxLedger)

SpecDefault == InitOver({"two"}, {U1}) /\ [][NextDefault]_vars

\* SpecParse: parseKrwAmount called on its own, once, with each argument.
ParseAlphabet == {"0", "5", "7", ".", ",", "_", " ", "\t", "a", "-"}

ParseInputs == UNION { [1..k -> ParseAlphabet] : k \in 0..MaxRaw }

InitParse ==
  /\ variant = "two"
  /\ ADMIN_ID = U1
  /\ entries = << >>
  /\ sessions = [u \in Ids |-> NoSession]
  /\ prompts = [u \in Ids |-> {}]
  /\ last = [op |-> "launch", user |-> ADMIN_ID, delta |-> 0]
  /\ sent = << >>
  /\ jobPc = "idle"
  /\ jobReport = NoReport
  /\ parse \in { [raw |-> raw, done |-> FALSE, result |-> Failed] :
                   raw \in ParseInputs }
  /\ pending = << >>
  /\ tally = [u \in {} |-> [c \in {} |-> 0]]

\* const value = parseKrwAmount(raw)
CallParseKrwAmount ==
  /\ ~parse.done
  /\ parse' = [parse EXCEPT !.done = TRUE, !.result = parseKrwAmount(parse.raw)]
  /\ UNCHANGED << variant, ADMIN_ID, entries, sessions, prompts, last, sent, jobPc,
                  jobReport, pending, tally >>

SpecParse == InitParse /\ [][CallParseKrwAmount]_vars

\* ------------------------------------------------ properties of the flows
Idle == [exists |-> TRUE, name |-> NULL, mode |-> NULL]

Chosen(name, mode) == [exists |-> TRUE, name |-> name, mode |-> mode]

\* the amount and the note the running variant reads from a message
ReadOf(text) == IF variant = "two" THEN Read2[text] ELSE Read3[text]

\* the entries a step appended, in order
Added == SubSeq(entries', Len(entries) + 1, Len(entries'))

\* a step only appended entries
Grew == Len(entries') >= Len(entries) /\ SubSeq(entries', 1, Len(entries)) = entries

\* a message of FlowTexts from an allow-listed sender, committed with no
\* failing call
Committed(userId, text) == Text(userId, text, "none", 0, MaxLedger)

\* C1: in the two-person variant, for every allow-listed user and every
\* message "A note" with a valid amount A, /add leaves the user's session
\* idle, selecting a person P then sets the name P, selecting Debt then sets
\* the mode debt, and the message then adds exactly one entry {P, A, note}
\* and leaves the session idle; what another sender does in between does not
\* touch the session.
C1_DebtFlow ==
  [][variant = "two" =>
       \A userId \in Allowed :
         IF last'.user # userId THEN sessions'[userId] = sessions[userId]
         ELSE
         /\ (last'.op = "add" /\ Add(userId)) => sessions'[userId] = Idle
         /\ \A P \in Range(UserNames) :
              /\ (last'.op = "choose_person" /\ sessions[userId] = Idle
                  /\ ChoosePerson(userId, P))
                   => sessions'[userId] = Chosen(P, NULL)
              /\ (last'.op = "type_debt" /\ sessions[userId] = Chosen(P, NULL)
                  /\ ChooseType(userId, "debt"))
                   => sessions'[userId] = Chosen(P, "debt")
              /\ \A text \in FlowTexts :
                   (/\ last'.op = "text"
                    /\ sessions[userId] = Chosen(P, "debt")
                    /\ ReadOf(text).amount.ok
                    /\ Committed(userId, text))
                   => /\ Grew /\ Len(Added) = 1
                      /\ Added[1].name = P
                      /\ Added[1].amount = ReadOf(text).amount.value * Scale
                      /\ Added[1].note = ReadOf(text).note
                      /\ sessions'[userId] = Idle]_vars

\* a debt of 4 with the note "a" was recorded for a person and confirmed
C1_Witness ==
  /\ variant = "two" /\ last.op = "text" /\ last.delta = 1
  /\ sent # << >> /\ sent[1].kind = "debt" /\ sent[1].ok
  /\ \E i \in 1..Len(entries) :
       entries[i].amount = 4 * Scale /\ entries[i].note = <<"a">>
  /\ sessions[last.user] = Idle

\* C2: in the two-person variant, a message with a valid total A from a user
\* whose session is {P, expenses} adds exactly one entry, for P, with the
\* amount round(A / 2) (the integer s with 2s = A or 2s = A + 1), adds none
\* for the other participant, and leaves the session idle.
C2_ExpenseFlow ==
  [][variant = "two" =>
       \A userId \in Allowed : \A P \in Range(UserNames) : \A text \in FlowTexts :
         (/\ last'.op = "text" /\ last'.user = userId
          /\ sessions[userId] = Chosen(P, "expenses")
          /\ ReadOf(text).amount.ok
          /\ Committed(userId, text))
         => /\ Grew /\ Len(Added) = 1
            /\ Added[1].name = P
            /\ \E s \in 0..ReadOf(text).amount.value :
                 /\ Added[1].amount = s * Scale
                 /\ 2 * s - ReadOf(text).amount.value \in {0, 1}
            /\ Added[1].note = ReadOf(text).note
            /\ sessions'[userId] = Idle]_vars

\* an expense of 3 was recorded as the half 2 for one person only
C2_Witness ==
  /\ variant = "two" /\ last.op = "text" /\ last.delta = 1
  /\ sent # << >> /\ sent[1].kind = "expenses" /\ sent[1].ok
  /\ Len(entries) = 1 /\ entries[1].amount = 2 * Scale
  /\ sessions[last.user] = Idle

\* C3: in both variants, a message with a valid total from a user whose
\* session names Umumiy adds exactly one entry for each real participant (two
\* or three), in the order of the participants, all with the same amount and
\* the same note, none under the name Umumiy, and leaves the session idle.
C3_SplitFlow ==
  [][\A userId \in Allowed : \A text \in FlowTexts :
       (/\ last'.op = "text" /\ last'.user = userId
        /\ sessions[userId].exists /\ sessions[userId].name = Umumiy
        /\ ReadOf(text).amount.ok
        /\ Committed(userId, text))
       => /\ Grew /\ Len(Added) = Len(UserNames)
          /\ \A i \in 1..Len(Added) :
               /\ Added[i].name = UserNames[i]
               /\ Added[i].amount = Added[1].amount
               /\ Added[i].note = ReadOf(text).note
          /\ sessions'[userId].exists /\ sessions'[userId].name = NULL]_vars

\* a split was recorded for three participants
C3_Witness ==
  /\ variant = "three" /\ last.op = "text" /\ last.delta = 3
  /\ sent # << >> /\ sent[1].kind = "split"
  /\ Len(entries) = 3 /\ entries[3].name = "Jyan"
  /\ sessions[last.user].name = NULL

\* C10: in both variants, a message whose first token is no valid amount,
\* from a user whose session has a name set, adds no entry, leaves every
\* session as it was and is answered by the guidance reply alone; and from the
\* state such a reply leaves, a message with a valid amount from the same user
\* still commits.
C10_InvalidAmount ==
  [][\A userId \in Allowed : \A text \in FlowTexts :
       /\ (/\ last'.op = "text" /\ last'.user = userId
           /\ sessions[userId].exists /\ sessions[userId].name # NULL
           /\ ~ReadOf(text).amount.ok
           /\ Text(userId, text, "none", 0, MaxLedger))
          => /\ entries' = entries
             /\ sessions' = sessions
             /\ sent' = << Msg(userId, "invalid_amount") >>
       /\ (/\ last.op = "text" /\ last.user = userId
           /\ last'.op = "text" /\ last'.user = userId
           /\ sent = << Msg(userId, "invalid_amount") >>
           /\ ReadOf(text).amount.ok
           /\ Committed(userId, text))
          => /\ Len(entries') > Len(entries)
             /\ sessions'[userId].name = NULL]_vars

\* an invalid amount was answered while the sender's session kept its name
C10_Witness ==
  /\ last.op = "text" /\ last.delta = 0
  /\ sent = << Msg(last.user, "invalid_amount") >>
  /\ sessions[last.user].name # NULL
  /\ ENABLED Committed(last.user, <<"3">>)

\* ------------------------------------- properties of the ledger and the gate
\* the step is one of the scheduled job
JobActs == last'.user = Cron

\* the identities a step addressed a message of the kind to, delivered or not
Addressed(kind) == { sent'[i].to : i \in { j \in 1..Len(sent') : sent'[j].kind = kind } }

ClearPrompts(userId) == { p \in prompts[userId] : p.kind = "clear" }

\* C4: entries leave the ledger only in the delete-all of the scheduled job,
\* in an approve_clear of an identity that holds the prompt of a /clear issued
\* by a different allow-listed identity, or one at a time in /delete; such a
\* prompt comes from that identity's /clear only; and /clear itself,
\* deny_clear, /cancel, the cancel button, /add and the selections never remove
\* or change an entry.
C4_LedgerEmptiedOnly ==
  [][/\ ~Grew => last'.op \in {"job_delete", "approve_clear", "delete"}
     /\ last'.op = "delete" => Len(entries') >= Len(entries) - 1
     /\ (last'.op = "approve_clear" /\ entries' # entries)
          => /\ entries' = << >>
             /\ \E p \in ClearPrompts(last'.user) :
                  p.from \in Allowed \ {last'.user}
     /\ \A userId \in Ids : \A p \in ClearPrompts(userId)' \ ClearPrompts(userId) :
          /\ last'.op = "clear" /\ last'.user = p.from
          /\ p.from \in Allowed \ {userId}
     /\ last'.op \in {"clear", "deny_clear", "cancel", "choose_cancel", "add",
                      "choose_Umumiy", "choose_person", "type_debt", "type_expenses"}
          => entries' = entries]_vars

\* an approval emptied a ledger that held entries
C4_Witness ==
  /\ last.op = "approve_clear" /\ last.delta < 0
  /\ entries = << >>
  /\ \E p \in ClearPrompts(last.user) : p.from # last.user

\* C5: an update of an identity that is not allow-listed reaches no handler:
\* the ledger, the sessions and the prompts stay as they were, the
\* administrator is sent the alert and the sender the refusal, and such an
\* identity never has a session.
C5_Gate ==
  [][\A userId \in Ids \ Allowed :
       /\ last'.user = userId
            => /\ last'.op = "unauthorized"
               /\ entries' = entries
               /\ sessions' = sessions
               /\ prompts' = prompts
               /\ sent' = << Msg(ADMIN_ID, "alert"), Msg(userId, "refusal") >>
       /\ sessions'[userId] = NoSession]_vars

\* a stranger was refused while the ledger held an entry and a user was in a
\* conversation
C5_Witness ==
  /\ last.op = "unauthorized" /\ last.user = Stranger
  /\ sent = << Msg(ADMIN_ID, "alert"), Msg(Stranger, "refusal") >>
  /\ entries # << >>
  /\ \E userId \in Allowed : sessions[userId].name # NULL

\* the first allow-listed identity other than userId
FirstOther(userId) ==
  IF userId = ALLOWED_USERS[1] THEN ALLOWED_USERS[2] ELSE ALLOWED_USERS[1]

\* the /clear handler of the running variant goes on to ask for approval
ClearAccepted(userId) ==
  variant = "three" => userId # JYAN_ID /\ entries # << >>

C7_Deny ==
  [][\A userId \in Allowed :
       (last'.op = "deny_clear" /\ last'.user = userId)
       => /\ entries' = entries
          /\ ClearPrompts(userId) # {}
          /\ \A p \in ClearPrompts(userId) :
               \E i \in 1..Len(sent') : sent'[i] = Msg(p.from, "denied_notice")
          /\ \E i \in 1..Len(sent') : sent'[i] = Msg(userId, "denied")]_vars

\* a request to clear a ledger with entries was denied and its issuer told
C7_Witness ==
  /\ last.op = "deny_clear" /\ last.delta = 0
  /\ entries # << >>
  /\ \E p \in ClearPrompts(last.user) : sent[1] = Msg(p.from, "denied_notice")

\* ------------------------------------------ properties of the scheduled job
\* the deliveries of a step: one attempt per allow-listed identity, in order
DeliveredToAll(kind) ==
  /\ Len(sent') = Len(ALLOWED_USERS)
  /\ \A i \in 1..Len(sent') : sent'[i].to = ALLOWED_USERS[i] /\ sent'[i].kind = kind

\* C8: the scheduled job reads the full ledger into its report, writes the
\* report, attempts its delivery to every allow-listed identity, then deletes
\* all entries and attempts the completion notice to every allow-listed
\* identity, in this order; no delivery outcome stops the deletion, which
\* needs no approve_clear, and the job removes entries in that one step only.
C8_JobOrder ==
  /\ [](jobPc = "delivered" => ENABLED JobDelete(FALSE, TRUE))
  /\ [][JobActs =>
          /\ << jobPc, jobPc' >> \in
               { << "idle", "read" >>, << "idle", "failed" >>,
                 << "read", "written" >>, << "read", "failed" >>,
                 << "written", "delivered" >>,
                 << "delivered", "deleted" >>, << "delivered", "failed" >>,
                 << "deleted", "idle" >>, << "failed", "idle" >> }
          /\ jobPc' = "read" => jobReport'.entries = entries /\ entries' = entries
          /\ jobPc' = "written" => jobReport' = jobReport /\ entries' = entries
          /\ jobPc' = "delivered" => DeliveredToAll("report") /\ entries' = entries
          /\ jobPc' = "deleted" => entries' = << >>
          /\ jobPc = "deleted" => DeliveredToAll("job_done") /\ entries' = entries
          /\ entries' # entries => jobPc = "delivered"]_vars

\* the job emptied a ledger with entries though no one was ever asked to
\* approve a clear
C8_Witness ==
  /\ jobPc = "deleted" /\ last.op = "job_delete" /\ last.delta < 0
  /\ entries = << >> /\ jobReport.entries # << >>
  /\ \A userId \in Ids : ClearPrompts(userId) = {}

\* C9: a failure of the job's read, write or delete-all is caught: the
\* administrator is sent the failure notice, the job returns to idle whether
\* or not that notice is delivered, and the scheduler can fire the job again;
\* a failure before the delete-all leaves the ledger as it was.
C9_JobFailure ==
  /\ []((variant = "two" /\ jobPc = "idle") => ENABLED JobRead(FALSE))
  /\ [][JobActs =>
          /\ (jobPc' = "failed" /\ jobPc \in {"idle", "read"}) => entries' = entries
          /\ jobPc' = "failed" => jobPc \in {"idle", "read", "delivered"}
          /\ jobPc = "failed"
               => /\ jobPc' = "idle"
                  /\ entries' = entries
                  /\ Len(sent') = 1
                  /\ sent'[1].to = ADMIN_ID /\ sent'[1].kind = "job_failed"]_vars

\* the job failed, its failure notice was lost, and the job is idle again
\* over the ledger it found
C9_Witness ==
  /\ last.op = "job_catch" /\ jobPc = "idle"
  /\ sent = << Lost(ADMIN_ID, "job_failed") >>
  /\ entries # << >>
  /\ ENABLED JobRead(FALSE)

\* ------------------------------------- properties of idle text and cancel
\* C11: a free-text message from an allow-listed user who has no session
\* record, or whose session has no name set, changes nothing: no entry, no
\* session and no prompt changes, and no message is sent.
C11_IdleText ==
  [][\A userId \in Allowed : \A text \in FlowTexts :
       (/\ last'.op = "text" /\ last'.user = userId
        /\ (~sessions[userId].exists \/ sessions[userId].name = NULL)
        /\ Text(userId, text, "none", 0, MaxLedger))
       => /\ entries' = entries
          /\ sessions' = sessions
          /\ prompts' = prompts
          /\ sent' = << >>]_vars

\* a user with no session record wrote a message into a ledger with entries,
\* and nothing was sent
C11_Witness ==
  /\ last.op = "text" /\ last.delta = 0
  /\ last.user \in Allowed
  /\ sessions[last.user] = NoSession
  /\ sent = << >>
  /\ entries # << >>

CancelOps == {"cancel", "choose_cancel"}

\* C12: /cancel can be sent in every state, and the cancel button pressed
\* wherever the user holds a prompt that carries it; afterwards the user's
\* session has neither name nor mode, the ledger and every other session are
\* as before and the user is sent the confirmation; and a free-text message
\* of that user that follows a cancel adds no entry.
C12_Cancel ==
  /\ [](\A userId \in Allowed :
          /\ ENABLED Cancel(userId)
          /\ CanTap(userId, "choose_cancel") => ENABLED ChooseCancel(userId))
  /\ [][\A userId \in Allowed :
          /\ (last'.user = userId /\ last'.op \in CancelOps)
               => /\ sessions'[userId].name = NULL
                  /\ sessions'[userId].mode = NULL
                  /\ entries' = entries
                  /\ \A w \in Ids \ {userId} : sessions'[w] = sessions[w]
                  /\ sent' = << Msg(userId, "cancelled") >>
          /\ (/\ last.user = userId /\ last.op \in CancelOps
              /\ last'.user = userId /\ last'.op = "text")
               => entries' = entries /\ sent' = << >>]_vars

\* a user who had been asked for the entry type cancelled while another user
\* was in a conversation
C12_Witness ==
  /\ variant = "two" /\ last.op = "cancel"
  /\ Prompt("type", last.user) \in prompts[last.user]
  /\ sessions[last.user] = Idle
  /\ \E w \in Allowed \ {last.user} : sessions[w].name # NULL

\* C13: in every reachable state of either variant, the name of every stored
\* entry is one of the real participants, never the split-target label.
C13_RealNames ==
  \A i \in 1..Len(entries) :
    entries[i].name \in Range(UserNames) /\ entries[i].name # Umumiy

\* a split of the two-person variant is stored under the two participants
C13_Witness ==
  /\ variant = "two" /\ last.op = "text"
  /\ sent # << >> /\ sent[1].kind = "split"
  /\ Len(entries) = 2
  /\ entries[1].name = "Sheyx" /\ entries[2].name = "Polvon"

\* ------------------------------------------------ properties of the amounts
\* C14 as stated: every stored entry has a non-negative integer amount (a
\* whole multiple of Scale, amounts being held in hundredths).
C14_WholeAmounts ==
  \A i \in 1..Len(entries) :
    entries[i].amount >= 0 /\ entries[i].amount % Scale = 0

\* C15: in the two-person variant the two shares recorded for an even total
\* T sum to T: for every even T up to MaxTotal by the split's arithmetic, and
\* for the entries a split message with an even total adds to the ledger.
C15_EvenSplit ==
  /\ [](variant = "two" =>
          \A T \in 0..MaxTotal :
            T % 2 = 0 =>
              LET docs == SplitDocs2(T, << >>)
              IN Len(docs) = 2 /\ docs[1].amount + docs[2].amount = T * Scale)
  /\ [][variant = "two" =>
          \A userId \in Allowed : \A text \in FlowTexts :
            (/\ last'.op = "text" /\ last'.user = userId
             /\ sessions[userId].exists /\ sessions[userId].name = Umumiy
             /\ ReadOf(text).amount.ok
             /\ ReadOf(text).amount.value % 2 = 0
             /\ Committed(userId, text))
            => /\ Grew /\ Len(Added) = 2
               /\ Added[1].amount + Added[2].amount
                    = ReadOf(text).amount.value * Scale]_vars

\* the total 4 was split into the shares 2 and 2
C15_Witness ==
  /\ variant = "two" /\ last.op = "text" /\ last.delta = 2
  /\ sent # << >> /\ sent[1].kind = "split"
  /\ Len(entries) = 2
  /\ entries[1].amount = 2 * Scale /\ entries[2].amount = 2 * Scale
  /\ entries[1].amount + entries[2].amount = 4 * Scale

\* ------------------------------------------- properties of parseKrwAmount
SeparatorChars == {".", ",", "_", " ", "\t"}

Numeral ==
  [c \in {"0", "1", "2", "3", "4", "5", "6", "7", "8", "9"} |->
     CASE c = "0" -> 0 [] c = "1" -> 1 [] c = "2" -> 2 [] c = "3" -> 3
       [] c = "4" -> 4 [] c = "5" -> 5 [] c = "6" -> 6 [] c = "7" -> 7
       [] c = "8" -> 8 [] c = "9" -> 9]

\* what is left of a string when its separators are removed
Residue(s) == SelectSeq(s, LAMBDA c : c \notin SeparatorChars)

RECURSIVE DecimalValue(_, _)
\* the integer the digits of s denote, read from the left after acc
DecimalValue(s, acc) ==
  IF s = << >> THEN acc
  ELSE DecimalValue(Tail(s), IF s[1] \in SeparatorChars THEN acc
                             ELSE 10 * acc + Numeral[s[1]])

\* digits with separators inserted: at least one digit and nothing else
Separated(s) ==
  /\ Residue(s) # << >>
  /\ \A i \in 1..Len(s) : s[i] \in SeparatorChars \cup DOMAIN Numeral

\* C16: for every string made of decimal digits with periods, commas, white
\* space or underscores inserted, parseKrwAmount returns the integer value of
\* the string with the separators removed.
C16_ParseSeparated ==
  (parse.done /\ Separated(parse.raw))
    => parse.result = [ok |-> TRUE, value |-> DecimalValue(parse.raw, 0)]

\* "5.0", "5,0", "5 0" and "5_0" were parsed to what "50" is parsed to
C16_Witness ==
  /\ parse.done
  /\ parse.raw \in { <<"5", ".", "0">>, <<"5", ",", "0">>, <<"5", " ", "0">>,
                     <<"5", "_", "0">>, <<"5", "0">> }
  /\ parse.result.ok /\ parse.result.value = 50

\* C17: parseKrwAmount returns null for the empty string, for a string with
\* nothing left after the separators are removed, and for every string with a
\* character that is no digit left after the separators are removed.
C17_ParseRejects ==
  (/\ parse.done
   /\ \/ parse.raw = << >>
      \/ Residue(parse.raw) = << >>
      \/ \E i \in 1..Len(Residue(parse.raw)) :
           Residue(parse.raw)[i] \notin DOMAIN Numeral)
    => ~parse.result.ok

\* "-5" was rejected
C17_Witness ==
  /\ parse.done
  /\ parse.raw = <<"-", "5">>
  /\ ~parse.result.ok

\* ------------------------------------------- properties of failing calls
\* C18 as stated: whenever a commit notification, a deletion notice, the
\* report document or the completion notice is broadcast, every recipient is
\* sent its message, whether or not an earlier delivery failed: the commit and
\* deletion notices go to every allow-listed identity but the sender, the
\* report and the completion notice to every allow-listed identity.
C18_AllNotified ==
  [][/\ (last'.op = "text" /\ last'.delta > 0 /\ sent'[1].ok)
          => Addressed("commit_notice") = Allowed \ {last'.user}
     /\ (last'.op = "delete" /\ last'.delta < 0)
          => Addressed("delete_notice") = Allowed \ {last'.user}
     /\ last'.op = "job_deliver" => Addressed("report") = Allowed
     /\ last'.op = "job_notify" => Addressed("job_done") = Allowed]_vars

\* the number of entries of one commit of the kind
CommitSize(kind) == IF kind = "split" THEN Len(UserNames) ELSE 1

CommitKinds == {"split", "expenses", "debt", "single"}

\* C19 as stated: a commit in which a store write fails is answered by the
\* generic failure reply and leaves the sessions as they were; and when the
\* same user's next message is then committed, the failed attempt and the
\* retry together have added the entries of exactly one commit.
C19_RetrySafe ==
  [][\A userId \in Allowed :
       /\ (/\ last'.op = "text" /\ last'.user = userId
           /\ sent' # << >> /\ sent'[1].kind = "error")
            => sessions' = sessions /\ sent' = << Msg(userId, "error") >>
       /\ (/\ last.op = "text" /\ last.user = userId
           /\ sent = << Msg(userId, "error") >>
           /\ last'.op = "text" /\ last'.user = userId
           /\ sent' # << >> /\ sent'[1].ok /\ sent'[1].kind \in CommitKinds)
            => last.delta + last'.delta = CommitSize(sent'[1].kind)]_vars

\* ------------------------------------------------------ properties of /delete
\* the entries of es whose id is not entryId, in order
Without(es, entryId) == SelectSeq(es, LAMBDA e : e.id # entryId)

\* C20: /delete <entry_id> removes an entry only when the sender is
\* allow-listed and is the administrator identity and an entry has that id;
\* then exactly that entry is removed and the others stay, in order.  For any
\* other sender, for an id no entry has and for a malformed command the ledger
\* stays as it was.
C20_Delete ==
  [][\A userId \in Senders : \A entryId \in 0..(Len(entries) + 1) :
       (/\ last'.user = userId /\ last'.op \in {"delete", "unauthorized"}
        /\ Delete(userId, entryId, "none"))
       => IF /\ userId \in Allowed /\ userId = ADMIN_ID
             /\ \E i \in 1..Len(entries) : entries[i].id = entryId
          THEN /\ entries' = Without(entries, entryId)
               /\ Len(entries') = Len(entries) - 1
          ELSE entries' = entries]_vars

\* the administrator deleted one entry of a split and the others stayed
C20_Witness ==
  /\ last.op = "delete" /\ last.delta = -1
  /\ last.user = ADMIN_ID /\ last.user \in Allowed
  /\ sent # << >> /\ sent[1].kind = "deleted"
  /\ entries # << >>

\* ------------------------------------------------- properties of the balance
RECURSIVE AmountSum(_, _)
\* the sum of the amounts of the entries of es from the k-th on
AmountSum(es, k) == IF k > Len(es) THEN 0 ELSE es[k].amount + AmountSum(es, k + 1)

\* the entries of es under the name n
EntriesOf(es, n) == SelectSeq(es, LAMBDA e : e.name = n)

RECURSIVE FigureSum(_, _)
\* the sum of the figures of a balance over the first k participants
FigureSum(balances, k) ==
  IF k = 0 THEN 0 ELSE balances[UserNames[k]] + FigureSum(balances, k - 1)

\* C21: the total-balance reply gives each real participant, and no one else,
\* the sum of the amounts of all stored entries under that name, whatever
\* their age; and the figures of the reply add up to the sum of all stored
\* amounts.
C21_TotalBalance ==
  [][\A userId \in Allowed :
       (/\ last'.op = "balance_total" /\ last'.user = userId
        /\ BalanceTotal(userId, FALSE))
       => /\ Len(sent') = 1 /\ sent'[1].kind = "balance" /\ sent'[1].to = userId
          /\ DOMAIN sent'[1].balances = Range(UserNames)
          /\ \A n \in Range(UserNames) :
               sent'[1].balances[n] = AmountSum(EntriesOf(entries, n), 1)
          /\ FigureSum(sent'[1].balances, Len(UserNames)) = AmountSum(entries, 1)
          /\ entries' = entries]_vars

\* the total balance was shown over a ledger of two commits, a participant's
\* figure being the sum of two entries
C21_Witness ==
  /\ last.op = "balance_total"
  /\ sent # << >> /\ sent[1].kind = "balance"
  /\ \E n \in Range(UserNames) :
       /\ Len(EntriesOf(entries, n)) = 2
       /\ sent[1].balances[n] = entries[1].amount + EntriesOf(entries, n)[2].amount
       /\ entries[1].name = n /\ entries[1].amount > 0

C23_OneCommitPerSelection ==
  \A userId \in DOMAIN tally : tally[userId].commits <= tally[userId].selections

\* C24 as stated: whatever the handlers do between the steps of the scheduled
\* job, every entry its delete-all removes is among the entries the same run
\* read into the report it delivered.
C24_RemovedWereReported ==
  [][(last'.op = "job_delete" /\ entries' # entries)
       => \A i \in 1..Len(entries) :
            \E j \in 1..Len(jobReport.entries) : jobReport.entries[j] = entries[i]]_vars

\* ------------------------------------------- properties of the session
\* C25 as stated: in every reachable state of the two-person variant, a
\* session whose mode is set names a real participant: never no name, never
\* the split target.
C25_ModeOnlyWithPerson ==
  variant = "two" =>
    \A userId \in Ids :
      sessions[userId].mode # NULL => sessions[userId].name \in Range(UserNames)

\* ---------------------------------------- properties of the message forms
\* C26 as stated: with a session in debt mode for a participant P, each of
\* the messages "50 000 snacks", "50.000 snacks" and "50000 snacks" records
\* one entry for P with the amount 50000 and the note "snacks".
C26_GuidanceForms ==
  [][\A userId \in Allowed : \A P \in Range(UserNames) : \A text \in GuideTexts :
       (/\ last'.op = "text" /\ last'.user = userId
        /\ sessions[userId] = Chosen(P, "debt")
        /\ Text(userId, text, "none", 0, MaxLedger))
       => /\ Grew /\ Len(Added) = 1
          /\ Added[1].name = P
          /\ Added[1].amount = 50000 * Scale
          /\ Added[1].note = << "s", "n", "a", "c", "k", "s" >>]_vars

\* ----------------------------------------- properties of the clear rounds
\* C27: an identity that was ever sent a clear prompt can approve from then
\* on, whatever it or anyone answered before; an approve_clear of an identity
\* that had already answered a round, or that had been sent a newer round
\* on top of a pending one, empties the ledger of whatever it holds then and
\* is confirmed like any other.
C27_StaleApproval ==
  /\ [](\A userId \in DOMAIN tally :
          tally[userId].rounds > 0 => ENABLED ApproveClear(userId))
  /\ [][\A userId \in DOMAIN tally :
          (/\ last'.op = "approve_clear" /\ last'.user = userId
           /\ (tally[userId].answers > 0 \/ tally[userId].rounds > 1))
          => /\ entries' = << >>
             /\ sent' = << Msg(userId, "cleared"),
                           Msg(OtherUser(userId), "cleared_notice") >>]_vars

\* an identity that had answered every round it was sent approved once more,
\* and entries stored since were deleted
C27_Witness ==
  /\ last.op = "approve_clear" /\ last.delta < 0
  /\ tally[last.user].rounds > 0
  /\ tally[last.user].answers > tally[last.user].rounds

C29_OddTotals ==
  /\ [](variant = "two" =>
          \A T \in 0..MaxTotal :
            T % 2 = 1 =>
              LET split == SplitDocs2(T, << >>)
                  expense == ExpensesDocs(UserNames[1], T, << >>)
              IN /\ Len(split) = 2 /\ Len(expense) = 1
                 /\ 2 * split[1].amount = (T + 1) * Scale
                 /\ split[2].amount = split[1].amount
                 /\ split[1].amount + split[2].amount = (T + 1) * Scale
                 /\ split[1].amount + split[2].amount # T * Scale
                 /\ 2 * expense[1].amount = (T + 1) * Scale)
  /\ [][variant = "two" =>
          \A userId \in Allowed : \A text \in FlowTexts :
            (/\ last'.op = "text" /\ last'.user = userId
             /\ sessions[userId].exists
             /\ \/ sessions[userId].name = Umumiy
                \/ sessions[userId].name # NULL /\ sessions[userId].mode = "expenses"
             /\ ReadOf(text).amount.ok
             /\ ReadOf(text).amount.value % 2 = 1
             /\ Committed(userId, text))
            => /\ Grew
               /\ Len(Added) = (IF sessions[userId].name = Umumiy THEN 2 ELSE 1)
               /\ \A i \in 1..Len(Added) :
                    2 * Added[i].amount = (ReadOf(text).amount.value + 1) * Scale]_vars

\* the total 3 was split into the shares 2 and 2, which sum to 4
C29_Witness ==
  /\ variant = "two" /\ last.op = "text" /\ last.delta = 2
  /\ sent # << >> /\ sent[1].kind = "split"
  /\ Len(entries) = 2
  /\ entries[1].note = << >> /\ entries[2].note = << >>
  /\ entries[1].amount = 2 * Scale /\ entries[2].amount = 2 * Scale
  /\ entries[1].amount + entries[2].amount = (3 + 1) * Scale

\* ------------------------------------------ properties of the unset mode
\* C30: in the two-person variant, a message with a valid amount A from a
\* user whose session names a participant P and has no mode is committed as
\* a debt: exactly one entry {P, A, note} is added, the user is sent the debt
\* confirmation, and the session is left idle.
C30_DefaultDebt ==
  [][variant = "two" =>
       \A userId \in Allowed : \A P \in Range(UserNames) : \A text \in FlowTexts :
         (/\ last'.op = "text" /\ last'.user = userId
          /\ sessions[userId] = Chosen(P, NULL)
          /\ ReadOf(text).amount.ok
          /\ Text(userId, text, "none", 0, MaxLedger))
         => /\ Grew /\ Len(Added) = 1
            /\ Added[1].name = P
            /\ Added[1].amount = ReadOf(text).amount.value * Scale
            /\ Added[1].note = ReadOf(text).note
            /\ sent' # << >> /\ sent'[1] = Msg(userId, "debt")
            /\ sessions'[userId] = Idle]_vars

\* where no type is ever chosen, the message "3" was recorded as a debt of 3
C30_Witness ==
  /\ variant = "two" /\ last.op = "text" /\ last.delta = 1
  /\ \A userId \in Ids : Prompt("type", userId) \in prompts[userId]
                           => sessions[userId].mode = NULL
  /\ sent # << >> /\ sent[1] = Msg(last.user, "debt")
  /\ Len(entries) = 1 /\ entries[1].amount = 3 * Scale /\ entries[1].note = << >>
  /\ sessions[last.user] = Idle

====
